---- MODULE Spec2Model ----
(***************************************************************************)
(* A model of GoSlice: the Process pipeline, the PreLayer / PostLayer      *)
(* renderers, the two support modifiers, the slicer's makePolygons and the *)
(* clip package's GenerateLayerParts, polyTreeToLayerParts and Fill.       *)
(***************************************************************************)
EXTENDS Integers, Sequences, FiniteSets, TLC

VARIABLES
    \* ---- GoSlice.Process ----
    variant,        \* "lib": src/goslice.go, "cmd": src/cmd/goslice/slicer.go
    Options,        \* data.GoSliceOptions: InputFilePath, OutputFilePath
    pc,             \* position inside Process
    modIdx,         \* index of the modifier the range loop is at (1-based)
    calls,          \* every handler call made so far, in order, with its outcome
    returned,       \* what Process returned: NotReturned, Nil or an error
    \* ---- data.Options of the renderers and modifiers ----
    options,
    \* ---- the renderers, called layer by layer ----
    b,              \* the gcode.Builder
    layerNr,        \* the layer the renderers are called for next
    maxLayer,       \* the number of the last layer
    renderer,       \* the renderer called next for layerNr
    rendered,       \* per Render call: the renderer, its layerNr and the lines it added
    \* ---- the support modifiers ----
    sliced,         \* the layers as handed to SupportDetector
    layers,         \* []data.PartitionedLayer, indexed from 0
    modifier,       \* the modifier whose Modify runs next
    modifyErr,      \* what the last Modify returned
    clipFailed,     \* a clip operation of a Modify reported ok = false
    wroteAfterFail, \* a Modify wrote a layer after a clip operation had failed
    \* ---- layer.makePolygons (all lists indexed from 1, index 0 for Go's -1) ----
    segments,       \* l.segments: start, end, faceIndex, addedToPolygon
    touching,       \* om.OptimizedFace(f).TouchingFaceIndices(), per face
    polygons,       \* l.polygons; <<>> is a nil path
    closed,         \* l.closed
    mpc,            \* position inside makePolygons
    startSegmentIndex,
    currentSegmentIndex,
    polygon,        \* the path the stitching walk is building
    walk,           \* the segments the current walk has gone through
    walks,          \* per stitched path: the segments of its walk
    marks,          \* per segment: how often a walk set addedToPolygon on it
    restarts,       \* how often goto RerunConnectPolygons was taken
    merges,         \* per merge: the paths before and after it
    stitched,       \* polygons and closed when the stitching loop ended
    repaired,       \* polygons and closed when the repair loop ended
    kept,           \* the indices of the polygons the last loop kept
    \* ---- clipperClipper.GenerateLayerParts: the point filter of one polygon ----
    layerPolygon,   \* the polygon of the layer (indexed from 1)
    pointNr,        \* j, the point the loop is at; 0 when not running
    prev,           \* the index of the previous point the check is made with
    path,           \* the indices of the points appended to the clipper path
    \* ---- clipperClipper.Fill ----
    fillArgs,       \* lineWidth and overlapPercentage
    fillInset,      \* <<how far inside the outline the lines are clipped>>; <<>> before the call
    \* ---- clipperClipper.polyTreeToLayerParts ----
    tree,           \* the PolyTree: the parent of each node, 0 for the root
    polysForNextRound,
    layerParts,
    tpc             \* position inside polyTreeToLayerParts

processVars == <<variant, Options, pc, modIdx, calls, returned>>
renderVars == <<b, layerNr, maxLayer, renderer, rendered>>
supportVars == <<sliced, layers, modifier, modifyErr, clipFailed, wroteAfterFail>>

sliceVars == <<segments, touching, polygons, closed, mpc, startSegmentIndex,
               currentSegmentIndex, polygon, walk, walks, marks, restarts,
               merges, stitched, repaired, kept>>

clipVars == <<layerPolygon, pointNr, prev, path, fillArgs, fillInset,
              tree, polysForNextRound, layerParts, tpc>>

vars == <<processVars, options, renderVars, supportVars, sliceVars, clipVars>>

\* What Process, what the renderers, what the modifiers and what makePolygons
\* leave alone.
notProcessVars == <<options, renderVars, supportVars, sliceVars, clipVars>>
notRenderVars == <<processVars, options, supportVars, sliceVars, clipVars>>
notSupportVars == <<processVars, options, renderVars, sliceVars, clipVars>>
notSliceVars == <<processVars, options, renderVars, supportVars, clipVars>>
notClipVars == <<processVars, options, renderVars, supportVars, sliceVars>>

\* The error value a failing handler returns.
Err(stage, arg) == [error |-> stage, of |-> arg]

\* The nil error, and the value of `returned` while Process is running.
Nil == Err("nil", "")
NotReturned == Err("running", "")

\* Process is not running.
ProcessIdle ==
    /\ variant = "lib"
    /\ Options = [InputFilePath |-> "a.stl", OutputFilePath |-> ""]
    /\ pc = "idle"
    /\ modIdx = 1
    /\ calls = <<>>
    /\ returned = NotReturned

\* The modifiers are not running.
SupportIdle ==
    /\ sliced = <<>>
    /\ layers = <<>>
    /\ modifier = "idle"
    /\ modifyErr = Nil
    /\ clipFailed = FALSE
    /\ wroteAfterFail = FALSE

\* makePolygons is not running.
SliceIdle ==
    /\ segments = <<>>
    /\ touching = <<>>
    /\ polygons = <<>>
    /\ closed = <<>>
    /\ mpc = "idle"
    /\ startSegmentIndex = 0
    /\ currentSegmentIndex = 0
    /\ polygon = <<>>
    /\ walk = <<>>
    /\ walks = <<>>
    /\ marks = <<>>
    /\ restarts = 0
    /\ merges = <<>>
    /\ stitched = <<>>
    /\ repaired = <<>>
    /\ kept = <<>>

\* GenerateLayerParts is not running.
FilterIdle ==
    /\ layerPolygon = <<>>
    /\ pointNr = 0
    /\ prev = 0
    /\ path = <<>>

\* Fill is not running.
FillIdle ==
    /\ fillArgs = [lineWidth |-> 0, overlapPercentage |-> 0]
    /\ fillInset = <<>>

\* polyTreeToLayerParts is not running.
TreeIdle ==
    /\ tree = <<>>
    /\ polysForNextRound = <<>>
    /\ layerParts = <<>>
    /\ tpc = "idle"

\* Nothing of the clip package is running.
ClipIdle == FilterIdle /\ FillIdle /\ TreeIdle

Call(stage, arg, ok) == [stage |-> stage, arg |-> arg, ok |-> ok]

(***************************************************************************)
(* data.Options, as far as the renderers and the support modifiers read it *)
(***************************************************************************)
DefaultOptions ==
    [InitialHotEndTemperature |-> 205,
     InitialBedTemperature |-> 60,
     HotEndTemperature |-> 200,
     BedTemperature |-> 55,
     InitialTemperatureLayerCount |-> 3,
     LayerToSpeedLUT |-> <<>>,
     SupportEnabled |-> FALSE,
     TopGapLayers |-> 0,
     InterfaceLayers |-> 0,
     Distance |-> 0,
     PatternSpacing |-> 0,
     Gap |-> 0,
     BrimCount |-> 0]

(***************************************************************************)
(* gcode.Builder: the lines added so far and the settings the renderers    *)
(* set. A line is a G-code word and its parameters, or a comment.          *)
(***************************************************************************)
Command(code, arg) == [code |-> code, arg |-> arg]
Comment(text) == [code |-> ";", arg |-> text]

NewBuilder ==
    [lines |-> <<>>,
     extrusion |-> <<"unset", "unset">>,
     extrudeSpeed |-> "unset",
     moveSpeed |-> "unset",
     retractionSpeed |-> "unset",
     retractionAmount |-> "unset",
     extrudeSpeedOverride |-> "none"]

AddCommand(bb, code, arg) == [bb EXCEPT !.lines = Append(@, Command(code, arg))]
AddComment(bb, text) == [bb EXCEPT !.lines = Append(@, Comment(text))]
SetExtrusion(bb, thickness, width) == [bb EXCEPT !.extrusion = <<thickness, width>>]
SetExtrudeSpeed(bb, speed) == [bb EXCEPT !.extrudeSpeed = speed]
SetMoveSpeed(bb, speed) == [bb EXCEPT !.moveSpeed = speed]
SetRetractionSpeed(bb, speed) == [bb EXCEPT !.retractionSpeed = speed]
SetRetractionAmount(bb, amount) == [bb EXCEPT !.retractionAmount = amount]
SetExtrudeSpeedOverride(bb, speed) == [bb EXCEPT !.extrudeSpeedOverride = speed]
DisableExtrudeSpeedOverride(bb) == [bb EXCEPT !.extrudeSpeedOverride = "none"]

\* The renderers are not running.
RenderIdle ==
    /\ b = NewBuilder
    /\ layerNr = 0
    /\ maxLayer = 0
    /\ renderer = "idle"
    /\ rendered = <<>>

(***************************************************************************)
(* PreLayer.Render                                                         *)
(***************************************************************************)
\* if layerNr == 0 { ... }: the starting gcode
PreLayerStart(bb, o) ==
    LET b1  == AddComment(bb, "Generated with GoSlice")
        b2  == AddComment(b1, "______________________")
        b3  == AddCommand(b2, "M107", "")
        b4  == AddComment(b3, "SET_INITIAL_TEMP")
        b5  == AddCommand(b4, "M104", "S" \o ToString(o.InitialHotEndTemperature))
        b6  == AddCommand(b5, "M190", "S" \o ToString(o.InitialBedTemperature))
        b7  == AddCommand(b6, "M109", "S" \o ToString(o.InitialHotEndTemperature))
        b8  == AddComment(b7, "START_GCODE")
        b9  == AddCommand(b8, "G1", "Z5 F5000")
        b10 == AddCommand(b9, "G92", "E0")
        b11 == SetExtrusion(b10, "InitialLayerThickness", "ExtrusionWidth")
        b12 == SetExtrudeSpeed(b11, "LayerSpeed")
        b13 == SetMoveSpeed(b12, "MoveSpeed")
        b14 == SetRetractionSpeed(b13, "RetractionSpeed")
        b15 == SetRetractionAmount(b14, "RetractionLength")
    IN  SetExtrudeSpeedOverride(b15, "IntialLayerSpeed")

\* if fanSpeed, ok := LayerToSpeedLUT[layerNr]; ok { ... }
PreLayerFan(bb, nr, o) ==
    IF nr \in DOMAIN o.LayerToSpeedLUT
    THEN IF o.LayerToSpeedLUT[nr] = 0
         THEN AddCommand(bb, "M107", "")
         ELSE AddCommand(bb, "M106", "S" \o ToString(o.LayerToSpeedLUT[nr]))
    ELSE bb

\* if layerNr == InitialTemperatureLayerCount { ... }
PreLayerTemp(bb, nr, o) ==
    IF nr = o.InitialTemperatureLayerCount
    THEN AddCommand(AddCommand(AddComment(bb, "SET_TEMP"),
                               "M140", "S" \o ToString(o.BedTemperature)),
                    "M104", "S" \o ToString(o.HotEndTemperature))
    ELSE bb

PreLayerRender(bb, nr, max, o) ==
    LET b1 == AddComment(bb, "LAYER:" \o ToString(nr))
        b2 == IF nr = 0 THEN PreLayerStart(b1, o)
              ELSE IF nr = 1 THEN SetExtrusion(b1, "LayerThickness", "ExtrusionWidth")
              ELSE b1
        b3 == IF nr > 0
              THEN SetExtrudeSpeed(DisableExtrudeSpeedOverride(b2), "LayerSpeed")
              ELSE b2
        b4 == PreLayerFan(b3, nr, o)
    IN  PreLayerTemp(b4, nr, o)

(***************************************************************************)
(* PostLayer.Render                                                        *)
(***************************************************************************)
\* The ending gcode.
PostLayerEnd(bb) ==
    LET b1 == AddComment(bb, "END_GCODE")
        b2 == SetExtrusion(b1, "LayerThickness", "ExtrusionWidth")
        b3 == AddCommand(b2, "M107", "")
        b4 == AddCommand(b3, "M104", "S0")
        b5 == AddCommand(b4, "M140", "S0")
        b6 == AddCommand(b5, "G28", "X0")
    IN  AddCommand(b6, "M84", "")

\* The ending gcode added on the first layer instead of the last.
PostLayerRenderOnFirstLayer(bb, nr, max, o) ==
    IF nr = 0 THEN PostLayerEnd(bb) ELSE bb

PostLayerRender(bb, nr, max, o) ==
    IF nr = max THEN PostLayerEnd(bb) ELSE bb

(***************************************************************************)
(* The generator's walk: for each layer 0..maxLayer, in order, PreLayer    *)
(* first and PostLayer last.                                               *)
(***************************************************************************)
MaxRenderLayers == 4

FanSpeeds == {0, 255}
FanLayers == {0, 1}
TemperatureLayerCounts == {0, 1, 3}

\* What a Render call added to the builder.
Added(before, after) == SubSeq(after.lines, Len(before.lines) + 1, Len(after.lines))

InitRender ==
    /\ ProcessIdle
    /\ SupportIdle
    /\ SliceIdle
    /\ ClipIdle
    /\ \E lut \in UNION {[D -> FanSpeeds] : D \in SUBSET FanLayers},
          n \in TemperatureLayerCounts :
         options = [DefaultOptions EXCEPT !.LayerToSpeedLUT = lut,
                                          !.InitialTemperatureLayerCount = n]
    /\ b = NewBuilder
    /\ layerNr = 0
    /\ maxLayer \in 0..(MaxRenderLayers - 1)
    /\ renderer = "PreLayer"
    /\ rendered = <<>>

RenderPreLayer ==
    /\ renderer = "PreLayer"
    /\ layerNr <= maxLayer
    /\ b' = PreLayerRender(b, layerNr, maxLayer, options)
    /\ rendered' = Append(rendered, [renderer |-> "PreLayer", layerNr |-> layerNr,
                                     lines |-> Added(b, b')])
    /\ renderer' = "PostLayer"
    /\ UNCHANGED <<layerNr, maxLayer, notRenderVars>>

RenderPostLayer ==
    /\ renderer = "PostLayer"
    /\ b' = PostLayerRender(b, layerNr, maxLayer, options)
    /\ rendered' = Append(rendered, [renderer |-> "PostLayer", layerNr |-> layerNr,
                                     lines |-> Added(b, b')])
    /\ renderer' = "PreLayer"
    /\ layerNr' = layerNr + 1
    /\ UNCHANGED <<maxLayer, notRenderVars>>

Render ==
    \/ RenderPreLayer
    \/ RenderPostLayer

SpecRender == InitRender /\ [][Render]_vars

(***************************************************************************)
(* Geometry. A region (a []data.LayerPart) is the set of cells of a line   *)
(* of Width cells that it covers; nil and the empty list are both {}.      *)
(* Lengths are counted in cells.                                           *)
(***************************************************************************)
Width == 3

Cells == 0..(Width - 1)

Abs(x) == IF x < 0 THEN -x ELSE x

\* Go's integer division, which truncates toward zero.
GoDiv(x, y) == IF x >= 0 THEN x \div y ELSE -((-x) \div y)

\* The offset engine: delta > 0 grows the region by delta, delta < 0 shrinks it.
Offset(region, delta) ==
    IF delta >= 0
    THEN {c \in Cells : \E s \in region : Abs(c - s) <= delta}
    ELSE {c \in region : \A k \in delta..(-delta) : (c + k) \in region}

\* The delta of inset insetNr. Inset executes -offset * insetNr - offset / 2;
\* the modifiers hand the last term over as firstOffset, and each of them
\* passes firstOffset = -offset / 2 (d / 2 for offset -d).
InsetDelta(offset, insetNr, firstOffset) == (-offset) * insetNr + firstOffset

\* InsetLayer(...).ToOneDimension(): all insets of all parts, as one list.
InsetLayer(layer, offset, insetCount, firstOffset) ==
    UNION {Offset(layer, InsetDelta(offset, i, firstOffset)) : i \in 0..(insetCount - 1)}

\* Union and Difference of two part lists, when the engine reports ok.
Union(x, y) == x \cup y
Difference(x, y) == x \ y

\* What a clip operation returns beside ok = false.
FailedClip == {}

(***************************************************************************)
(* Layers and their attributes                                             *)
(***************************************************************************)
NoAttributes == [a \in {} |-> {}]

\* PartsAttribute, FullSupport: the attribute, or nil when the layer has none.
PartsAttribute(layer, name) ==
    IF name \in DOMAIN layer.attributes THEN layer.attributes[name] ELSE {}

HasAttribute(layer, name) == name \in DOMAIN layer.attributes

\* BrimOuterDimension: the area the brim of the layer covers, nil without brim.
BrimOuterDimension(layer) == PartsAttribute(layer, "brim")

\* newExtendedLayer: the same parts and the same attribute map.
newExtendedLayer(layer) == layer

\* newLayer.attributes[name] = value
SetAttribute(layer, name, value) ==
    [layer EXCEPT !.attributes = (name :> value) @@ @]

NumLayers(ls) == Cardinality(DOMAIN ls)

(***************************************************************************)
(* supportDetectorModifier.Modify                                          *)
(* failNr: the layerNr whose Difference reports ok = false (-1: none)      *)
(***************************************************************************)
\* The layer the support detected at layerNr is saved to.
SupportTargetSameLayer(nr, o) == nr

SupportTarget(nr, o) == nr - o.TopGapLayers

\* The support of layerNr: the next layer minus this layer offset by d, made
\* a little bit bigger.
DetectedSupport(ls, nr, o) ==
    LET offsetLayer == InsetLayer(ls[nr].parts, -o.Distance, 1, GoDiv(o.Distance, 2))
        support == Difference(ls[nr + 1].parts, offsetLayer)
    IN  InsetLayer(support, (-o.PatternSpacing) * 3, 1, GoDiv(o.PatternSpacing * 3, 2))

\* Save the support at the target layer.
SaveSupport(ls, target, support) ==
    [ls EXCEPT ![target] =
        IF support # {}
        THEN SetAttribute(newExtendedLayer(ls[target]), "support", support)
        ELSE newExtendedLayer(ls[target])]

RECURSIVE SupportDetectorLoop(_, _, _, _)
SupportDetectorLoop(ls, nr, o, failNr) ==
    IF nr >= NumLayers(ls) \/ ~o.SupportEnabled
    THEN [layers |-> ls, err |-> Nil, clipFailed |-> FALSE]
    ELSE IF nr = NumLayers(ls) - 1 \/ nr < o.TopGapLayers
    THEN SupportDetectorLoop(ls, nr + 1, o, failNr)
    ELSE IF failNr = nr
    THEN [layers |-> ls,
          err |-> Err("SupportDetector", "could not calculate the support parts"),
          clipFailed |-> TRUE]
    ELSE SupportDetectorLoop(
             SaveSupport(ls, SupportTarget(nr, o), DetectedSupport(ls, nr, o)),
             nr + 1, o, failNr)

\* Modify with the Difference of layerNr failNr (of failNrs) reporting ok = false.
DetectorModify(failNrs) ==
    /\ modifier = "SupportDetector"
    /\ \E failNr \in failNrs :
         \E r \in {SupportDetectorLoop(layers, 0, options, failNr)} :
             /\ layers' = r.layers
             /\ modifyErr' = r.err
             /\ clipFailed' = r.clipFailed
             /\ modifier' = IF r.err = Nil THEN "SupportGenerator" ELSE "aborted"
    /\ UNCHANGED <<sliced, wroteAfterFail, notSupportVars>>

\* The clip engine reports ok = true throughout.
SupportDetectorModify == DetectorModify({-1})

\* The clip engine may report ok = false once.
SupportDetectorModifyClipFailing == DetectorModify(-1..(NumLayers(layers) - 2))

(***************************************************************************)
(* supportGeneratorModifier.Modify                                         *)
(* fail = <<failNr, failOp>>: the clip operation that reports ok = false,  *)
(* by the layerNr of its round and its place in the round (NoFail: none):  *)
(*   1 Union(currentSupport, belowSupport)   2 Difference(result, bigger)  *)
(*   3 Difference(actual, aboveInterface)    4 Difference(actual, iface)   *)
(*   5 Difference(interfaceParts, brimArea)  6 Difference(without, brim)   *)
(***************************************************************************)
ClipOps == 1..6

NoFail == <<-1, 0>>

Min(x, y) == IF x < y THEN x ELSE y

GeneratorErr(op) ==
    [err |-> Err("SupportGenerator",
                 CASE op = 1 -> "could not union the supports"
                   [] op = 2 -> "could not subtract the model from the supports"
                   [] op = 3 -> "error while calculating interface parts"
                   [] OTHER  -> "error while calculating the actual support without the interface parts"),
     clipFailed |-> TRUE]

\* save the support as actual support to render for the layer below
GeneratorSave(ls, nr, actualSupport, interfaceParts, actualWithoutInterfaceParts, failed) ==
    LET l0 == newExtendedLayer(ls[nr - 1])
        l1 == IF actualSupport # {} THEN SetAttribute(l0, "fullSupport", actualSupport) ELSE l0
        l2 == IF interfaceParts # {} THEN SetAttribute(l1, "supportInterface", interfaceParts) ELSE l1
    IN  [err |-> Nil,
         clipFailed |-> failed,
         lastSupport |-> actualSupport,
         newLayer |-> SetAttribute(l2, "support", actualWithoutInterfaceParts)]

\* If there is any brim in this layer, remove it from the support: the ok of
\* both differences is overwritten and never read.
GeneratorBrim(ls, nr, actualSupport, interface1, without1, brimArea, failOp) ==
    IF HasAttribute(ls[nr - 1], "brim")
    THEN GeneratorSave(ls, nr, actualSupport,
             IF failOp = 5 THEN FailedClip ELSE Difference(interface1, brimArea),
             IF failOp = 6 THEN FailedClip ELSE Difference(without1, brimArea),
             failOp \in {5, 6})
    ELSE GeneratorSave(ls, nr, actualSupport, interface1, without1, FALSE)

GeneratorWithout(ls, nr, actualSupport, interface1, failOp) ==
    IF failOp = 4
    THEN GeneratorErr(4)
    ELSE GeneratorBrim(ls, nr, actualSupport, interface1,
                       Difference(actualSupport, interface1),
                       BrimOuterDimension(ls[nr - 1]), failOp)

\* The interface parts: the support that has no support interfaceLayers - 1
\* layers above.
GeneratorInterface(ls, nr, actualSupport, o, failOp) ==
    IF actualSupport = {}
    THEN GeneratorSave(ls, nr, actualSupport, {}, {}, FALSE)
    ELSE IF failOp = 3
    THEN GeneratorErr(3)
    ELSE GeneratorWithout(ls, nr, actualSupport,
             Difference(actualSupport,
                 PartsAttribute(ls[Min(nr + o.InterfaceLayers - 1, NumLayers(ls) - 1)],
                                "fullSupport")),
             failOp)

GeneratorRoundWithoutBelow(ls, nr, currentSupport, belowSupport, o, failOp) ==
    IF failOp \in {1, 2}
    THEN GeneratorErr(failOp)
    ELSE GeneratorInterface(ls, nr,
             Difference(currentSupport,
                        InsetLayer(ls[nr - 1].parts, -o.Gap, 1, GoDiv(o.Gap, 2))),
             o, failOp)

\* One round of the loop, from the union on: the new lastSupport and the
\* layer below as it is saved, or the error.
GeneratorRound(ls, nr, currentSupport, belowSupport, o, failOp) ==
    IF failOp \in {1, 2}
    THEN GeneratorErr(failOp)
    ELSE GeneratorInterface(ls, nr,
             Difference(Union(currentSupport, belowSupport),
                        InsetLayer(ls[nr - 1].parts, -o.Gap, 1, GoDiv(o.Gap, 2))),
             o, failOp)

RECURSIVE SupportGeneratorLoop(_, _, _, _, _, _)
\* What the loop does with the outcome r of the round of layerNr nr.
GeneratorNext(ls, nr, r, o, fail, failed) ==
    IF r.err # Nil
    THEN [layers |-> ls, err |-> r.err, clipFailed |-> TRUE, wroteAfterFail |-> failed]
    ELSE SupportGeneratorLoop([ls EXCEPT ![nr - 1] = r.newLayer], nr - 1,
                              r.lastSupport, o, fail, failed \/ r.clipFailed)

GeneratorStep(ls, nr, lastSupport, currentSupport, belowSupport, o, fail, failed) ==
    IF currentSupport = {} /\ belowSupport = {}
    THEN SupportGeneratorLoop(ls, nr - 1, lastSupport, o, fail, failed)
    ELSE GeneratorNext(ls, nr,
             GeneratorRound(ls, nr, currentSupport, belowSupport, o,
                            IF fail[1] = nr THEN fail[2] ELSE 0),
             o, fail, failed)

\* failed: a clip operation of an earlier round reported ok = false, and the
\* layer of that round was written all the same.
SupportGeneratorLoop(ls, nr, lastSupport, o, fail, failed) ==
    IF nr < 0 \/ ~o.SupportEnabled \/ nr = 0
    THEN [layers |-> ls, err |-> Nil, clipFailed |-> failed, wroteAfterFail |-> failed]
    ELSE GeneratorStep(ls, nr, lastSupport,
             IF lastSupport = {} THEN PartsAttribute(ls[nr], "support") ELSE lastSupport,
             PartsAttribute(ls[nr - 1], "support"),
             o, fail, failed)

\* Modify with the clip operation `fail` (of fails) reporting ok = false.
GeneratorModify(fails) ==
    /\ modifier = "SupportGenerator"
    /\ \E fail \in fails :
         \E r \in {SupportGeneratorLoop(layers, NumLayers(layers) - 2, {}, options,
                                        fail, FALSE)} :
             /\ layers' = r.layers
             /\ modifyErr' = r.err
             /\ clipFailed' = r.clipFailed
             /\ wroteAfterFail' = r.wroteAfterFail
             /\ modifier' = IF r.err = Nil THEN "done" ELSE "aborted"
    /\ UNCHANGED <<sliced, notSupportVars>>

SupportGeneratorModify == GeneratorModify({NoFail})

SupportGeneratorModifyClipFailing ==
    GeneratorModify({NoFail} \cup ((1..(NumLayers(layers) - 2)) \X ClipOps))

(***************************************************************************)
(* The layers the two support modifiers are given: sliced, with the        *)
(* attributes of the earlier modifiers (perimeters on every layer, brim on *)
(* layer 0 when the brim count is not 0).                                  *)
(***************************************************************************)
MaxLayers == 4

\* The parts of a layer: the first k cells, for each k.
Shapes == {0..(k - 1) : k \in 0..Width}

TopGapLayerCounts == {0, 1}
InterfaceLayerCounts == {0, 1, 2}
Distances == {0, 2}
PatternSpacings == {0, 1}
Gaps == {0, 2}
BrimCounts == {0, 1}

SupportOptions ==
    {[DefaultOptions EXCEPT !.SupportEnabled = TRUE, !.TopGapLayers = g,
                            !.InterfaceLayers = i, !.Distance = d,
                            !.PatternSpacing = p, !.Gap = gap, !.BrimCount = bc] :
        g \in TopGapLayerCounts, i \in InterfaceLayerCounts, d \in Distances,
        p \in PatternSpacings, gap \in Gaps, bc \in BrimCounts}
    \cup {DefaultOptions}

\* The layer of the given parts after Perimeter, Infill, InternalInfill and Brim.
ModifiedLayer(nr, parts, o) ==
    [parts |-> parts,
     attributes |->
        IF nr = 0 /\ o.BrimCount > 0 /\ parts # {}
        THEN ("brim" :> Offset(parts, o.BrimCount)) @@ ("perimeters" :> parts)
        ELSE ("perimeters" :> parts)]

InitSupport ==
    /\ ProcessIdle
    /\ RenderIdle
    /\ SliceIdle
    /\ ClipIdle
    /\ options \in SupportOptions
    /\ \E n \in 1..MaxLayers : \E parts \in [0..(n - 1) -> Shapes] :
         layers = [nr \in 0..(n - 1) |-> ModifiedLayer(nr, parts[nr], options)]
    /\ sliced = layers
    /\ modifier = "SupportDetector"
    /\ modifyErr = Nil
    /\ clipFailed = FALSE
    /\ wroteAfterFail = FALSE

Support ==
    \/ SupportDetectorModify
    \/ SupportGeneratorModify

SpecSupport == InitSupport /\ [][Support]_vars

SupportClipFailing ==
    \/ SupportDetectorModifyClipFailing
    \/ SupportGeneratorModifyClipFailing

SpecSupportClipFailing == InitSupport /\ [][SupportClipFailing]_vars

(***************************************************************************)
(* NewGoSlice: the built-in modifiers, in the order of the slice literal.  *)
(***************************************************************************)
ModifiersSwapped ==
    <<"Perimeter", "Infill", "InternalInfill", "Brim",
      "SupportGenerator", "SupportDetector">>

Modifiers ==
    <<"Perimeter", "Infill", "InternalInfill", "Brim",
      "SupportDetector", "SupportGenerator">>

InputFilePaths == {"a.stl", "b.stl"}
OutputFilePaths == {"", "out.gcode"}

\* The path handed to Writer.Write.
OutputPathIgnoringOption(v, o) == o.InputFilePath \o ".gcode"

OutputPath(v, o) ==
    IF v = "lib"
    THEN IF o.OutputFilePath = ""
         THEN o.InputFilePath \o ".gcode"
         ELSE o.OutputFilePath
    ELSE o.InputFilePath \o ".gcode"

\* return err / return nil
Return(e) ==
    /\ returned' = e
    /\ pc' = "done"

\* 1. Load model
Read ==
    /\ pc = "Read"
    /\ \E ok \in BOOLEAN :
        /\ calls' = Append(calls, Call("Read", Options.InputFilePath, ok))
        /\ IF ok
           THEN pc' = "Optimize" /\ UNCHANGED returned
           ELSE Return(Err("Read", Options.InputFilePath))
    /\ UNCHANGED <<variant, Options, modIdx, notProcessVars>>

\* 2. Optimize model
Optimize ==
    /\ pc = "Optimize"
    /\ \E ok \in BOOLEAN :
        /\ calls' = Append(calls, Call("Optimize", "models", ok))
        /\ IF ok
           THEN pc' = "Slice" /\ UNCHANGED returned
           ELSE Return(Err("Optimize", "models"))
    /\ UNCHANGED <<variant, Options, modIdx, notProcessVars>>

\* 3. Slice model into layers
Slice ==
    /\ pc = "Slice"
    /\ \E ok \in BOOLEAN :
        /\ calls' = Append(calls, Call("Slice", "optimizedModel", ok))
        /\ IF ok
           THEN pc' = "ModifierInit" /\ UNCHANGED returned
           ELSE Return(Err("Slice", "optimizedModel"))
    /\ UNCHANGED <<variant, Options, modIdx, notProcessVars>>

\* 4. Modify the layers: m.Init(optimizedModel)
ModifierInit ==
    /\ pc = "ModifierInit"
    /\ calls' = Append(calls, Call("Init", Modifiers[modIdx], TRUE))
    /\ pc' = "ModifierModify"
    /\ UNCHANGED <<variant, Options, modIdx, returned, notProcessVars>>

\* A Modify whose error is dropped: the loop goes on to the next modifier.
ModifierModifyIgnoringErr ==
    /\ pc = "ModifierModify"
    /\ \E ok \in BOOLEAN :
        /\ calls' = Append(calls, Call("Modify", Modifiers[modIdx], ok))
        /\ IF modIdx < Len(Modifiers)
           THEN pc' = "ModifierInit" /\ modIdx' = modIdx + 1
           ELSE pc' = "GeneratorInit" /\ UNCHANGED modIdx
        /\ UNCHANGED returned
    /\ UNCHANGED <<variant, Options, notProcessVars>>

\* err = m.Modify(layers); if err != nil { return err }
ModifierModify ==
    /\ pc = "ModifierModify"
    /\ \E ok \in BOOLEAN :
        /\ calls' = Append(calls, Call("Modify", Modifiers[modIdx], ok))
        /\ IF ok
           THEN /\ IF modIdx < Len(Modifiers)
                   THEN pc' = "ModifierInit" /\ modIdx' = modIdx + 1
                   ELSE pc' = "GeneratorInit" /\ UNCHANGED modIdx
                /\ UNCHANGED returned
           ELSE Return(Err("Modify", Modifiers[modIdx])) /\ UNCHANGED modIdx
    /\ UNCHANGED <<variant, Options, notProcessVars>>

\* 5. generate gcode from the layers: Generator.Init(optimizedModel)
GeneratorInit ==
    /\ pc = "GeneratorInit"
    /\ calls' = Append(calls, Call("GeneratorInit", "optimizedModel", TRUE))
    /\ pc' = "Generate"
    /\ UNCHANGED <<variant, Options, modIdx, returned, notProcessVars>>

Generate ==
    /\ pc = "Generate"
    /\ \E ok \in BOOLEAN :
        /\ calls' = Append(calls, Call("Generate", "layers", ok))
        /\ IF ok
           THEN pc' = "Write" /\ UNCHANGED returned
           ELSE Return(Err("Generate", "layers"))
    /\ UNCHANGED <<variant, Options, modIdx, notProcessVars>>

\* err = Writer.Write(finalGcode, outputPath); return err
Write ==
    /\ pc = "Write"
    /\ \E ok \in BOOLEAN :
        /\ calls' = Append(calls, Call("Write", OutputPath(variant, Options), ok))
        /\ Return(IF ok THEN Nil ELSE Err("Write", OutputPath(variant, Options)))
    /\ UNCHANGED <<variant, Options, modIdx, notProcessVars>>

\* The Process of cmd/goslice reads InputFilePath only: it has no output option.
InitProcess ==
    /\ variant \in {"lib", "cmd"}
    /\ Options \in [InputFilePath : InputFilePaths, OutputFilePath : OutputFilePaths]
    /\ variant = "cmd" => Options.OutputFilePath = ""
    /\ pc = "Read"
    /\ modIdx = 1
    /\ calls = <<>>
    /\ returned = NotReturned
    /\ options = DefaultOptions
    /\ RenderIdle
    /\ SupportIdle
    /\ SliceIdle
    /\ ClipIdle

Process ==
    \/ Read
    \/ Optimize
    \/ Slice
    \/ ModifierInit
    \/ ModifierModify
    \/ GeneratorInit
    \/ Generate
    \/ Write

SpecProcess == InitProcess /\ [][Process]_vars

(***************************************************************************)
(* layer.makePolygons. The points lie on one line: a point is its          *)
(* coordinate in micrometers. Face f of the model has segment f in the     *)
(* layer (faceToSegmentIndex), NoFace is a face without a segment in it.   *)
(***************************************************************************)
\* p.Sub(q).Size()
Size(p, q) == Abs(p - q)

\* p.Sub(q).ShorterThan(d)
ShorterThan(p, q, d) == Size(p, q) < d

\* path.IsAlmostFinished(d): the two ends of the path are less than d apart.
IsAlmostFinished(pts, d) == ShorterThan(pts[1], pts[Len(pts)], d)

\* length += point.Sub(poly[n-1]).Size(), for every point but the first
RECURSIVE PathLength(_)
PathLength(pts) ==
    IF Len(pts) < 2
    THEN 0
    ELSE PathLength(SubSeq(pts, 1, Len(pts) - 1))
             + Size(pts[Len(pts)], pts[Len(pts) - 1])

\* l.polygons[polyIndex][:len(l.polygons[polyIndex])]
removeLastPoint(pts) == SubSeq(pts, 1, Len(pts))

\* diff.ShorterThan(30) of the stitching
StitchDistance == 30

\* snapDistance of the repair loop
SnapDistance == 100

\* snapDistance of the last loop
ClearDistance == 1000

NoFace == 0

\* The segments of the touching faces that start less than 30 from p0.
Touching(segs, current, p0) ==
    {t \in touching[segs[current].faceIndex] :
        /\ t \in DOMAIN segs
        /\ ShorterThan(p0, segs[t].start, StitchDistance)}

\* canClose: the starting segment is one of them.
CanCloseAlways(segs, current, start, p0) == TRUE

CanClose(segs, current, start, p0) == start \in Touching(segs, current, p0)

\* The segments nextIndex can be set to: those not added to a polygon yet.
NextSegmentsReusing(segs, current, p0) == Touching(segs, current, p0)

NextSegments(segs, current, p0) ==
    {t \in Touching(segs, current, p0) : ~segs[t].addedToPolygon}

\* if segment.addedToPolygon { continue }
StitchSkip ==
    /\ mpc = "stitch"
    /\ startSegmentIndex <= Len(segments)
    /\ segments[startSegmentIndex].addedToPolygon
    /\ startSegmentIndex' = startSegmentIndex + 1
    /\ UNCHANGED <<segments, touching, polygons, closed, mpc, currentSegmentIndex,
                   polygon, walk, walks, marks, restarts, merges, stitched,
                   repaired, kept, notSliceVars>>

\* A new path is begun at the start of an unused segment.
StitchBegin ==
    /\ mpc = "stitch"
    /\ startSegmentIndex <= Len(segments)
    /\ ~segments[startSegmentIndex].addedToPolygon
    /\ polygon' = <<segments[startSegmentIndex].start>>
    /\ currentSegmentIndex' = startSegmentIndex
    /\ walk' = <<>>
    /\ mpc' = "walk"
    /\ UNCHANGED <<segments, touching, polygons, closed, startSegmentIndex, walks,
                   marks, restarts, merges, stitched, repaired, kept, notSliceVars>>

\* The range loop over the segments has ended.
StitchEnd ==
    /\ mpc = "stitch"
    /\ startSegmentIndex > Len(segments)
    /\ mpc' = "connect"
    /\ stitched' = [polygons |-> polygons, closed |-> closed]
    /\ UNCHANGED <<segments, touching, polygons, closed, startSegmentIndex,
                   currentSegmentIndex, polygon, walk, walks, marks, restarts,
                   merges, repaired, kept, notSliceVars>>

\* One round of the inner loop that finds a next segment. Which of several
\* matching segments is the last one found depends on the order of the
\* touching faces.
WalkNext ==
    /\ mpc = "walk"
    /\ LET segs == [segments EXCEPT ![currentSegmentIndex].addedToPolygon = TRUE]
           p0 == segments[currentSegmentIndex].end
       IN  /\ NextSegments(segs, currentSegmentIndex, p0) # {}
           /\ segments' = segs
           /\ polygon' = Append(polygon, p0)
           /\ \E nextIndex \in NextSegments(segs, currentSegmentIndex, p0) :
                  currentSegmentIndex' = nextIndex
    /\ marks' = [marks EXCEPT ![currentSegmentIndex] = @ + 1]
    /\ walk' = Append(walk, currentSegmentIndex)
    /\ UNCHANGED <<touching, polygons, closed, mpc, startSegmentIndex, walks,
                   restarts, merges, stitched, repaired, kept, notSliceVars>>

\* The round of the inner loop that finds none: the path is stored.
WalkBreak ==
    /\ mpc = "walk"
    /\ LET segs == [segments EXCEPT ![currentSegmentIndex].addedToPolygon = TRUE]
           p0 == segments[currentSegmentIndex].end
       IN  /\ NextSegments(segs, currentSegmentIndex, p0) = {}
           /\ segments' = segs
           /\ polygon' = Append(polygon, p0)
           /\ polygons' = Append(polygons, Append(polygon, p0))
           /\ closed' = Append(closed,
                               CanClose(segs, currentSegmentIndex, startSegmentIndex, p0))
    /\ marks' = [marks EXCEPT ![currentSegmentIndex] = @ + 1]
    /\ walk' = Append(walk, currentSegmentIndex)
    /\ walks' = Append(walks, Append(walk, currentSegmentIndex))
    /\ startSegmentIndex' = startSegmentIndex + 1
    /\ mpc' = "stitch"
    /\ UNCHANGED <<touching, currentSegmentIndex, restarts, merges, stitched,
                   repaired, kept, notSliceVars>>

\* polygon != nil && !l.closed[i]
Open(i) == polygons[i] # <<>> /\ ~closed[i]

Last(pts) == pts[Len(pts)]

\* The open paths that start less than snapDistance from the end of path i.
Partners(i) ==
    {j \in DOMAIN polygons :
        /\ j # i
        /\ Open(j)
        /\ ShorterThan(Last(polygons[i]), polygons[j][1], SnapDistance)}

\* score := diff.Size() - len(polygon2) * 10
Score(i, j) == Size(Last(polygons[i]), polygons[j][1]) - Len(polygons[j]) * 10

\* best: the first path of the lowest score (below snapDistance + 1), 0 for none.
Best(i) ==
    IF Partners(i) = {}
    THEN 0
    ELSE CHOOSE j \in Partners(i) :
             \A k \in Partners(i) :
                 \/ Score(i, j) < Score(i, k)
                 \/ Score(i, j) = Score(i, k) /\ j <= k

\* The open paths the loop finds a best for.
Mergers == {i \in DOMAIN polygons : Open(i) /\ Best(i) # 0}

\* polygon.IsAlmostFinished(snapDistance): polygon is the loop variable of
\* the range statement, the path i as it was before the merge.
ClosesAfterMerge(before, merged) == IsAlmostFinished(before, SnapDistance)

\* What the merge of the paths i and best leaves behind.
MergedWithoutErasing(i, best, merged, closeIt) ==
    [polygons EXCEPT ![i] = IF closeIt THEN removeLastPoint(merged) ELSE merged]

Merged(i, best, merged, closeIt) ==
    [polygons EXCEPT ![i] = IF closeIt THEN removeLastPoint(merged) ELSE merged,
                     ![best] = <<>>]

\* One pass of the repair loop up to its goto RerunConnectPolygons.
ConnectMerge ==
    /\ mpc = "connect"
    /\ Mergers # {}
    /\ \E i \in Mergers :
         /\ \A k \in Mergers : i <= k
         /\ \E m \in {[i |-> i,
                       best |-> Best(i),
                       before |-> polygons[i],
                       appended |-> polygons[Best(i)],
                       closed |-> ClosesAfterMerge(polygons[i],
                                      polygons[i] \o polygons[Best(i)])]} :
              /\ polygons' = Merged(i, m.best, m.before \o m.appended, m.closed)
              /\ closed' = [closed EXCEPT ![i] = @ \/ m.closed]
              /\ merges' = Append(merges, m @@ [after |-> polygons'[i]])
    /\ restarts' = restarts + 1
    /\ UNCHANGED <<segments, touching, mpc, startSegmentIndex, currentSegmentIndex,
                   polygon, walk, walks, marks, stitched, repaired, kept,
                   notSliceVars>>

\* The pass of the repair loop that merges nothing.
ConnectDone ==
    /\ mpc = "connect"
    /\ Mergers = {}
    /\ mpc' = "clear"
    /\ repaired' = [polygons |-> polygons, closed |-> closed]
    /\ UNCHANGED <<segments, touching, polygons, closed, startSegmentIndex,
                   currentSegmentIndex, polygon, walk, walks, marks, restarts,
                   merges, stitched, kept, notSliceVars>>

\* poly.IsAlmostFinished(snapDistance) of the last loop
Snapped(i) == polygons[i] # <<>> /\ IsAlmostFinished(polygons[i], ClearDistance)

\* l.closed[i] after the last loop has passed polygon i
ClosedAtLast(i) == closed[i] \/ Snapped(i)

ClearedKeepingOpen(i) ==
    /\ polygons[i] # <<>>
    /\ PathLength(polygons[i]) > ClearDistance

\* l.polygons[i] != nil && length > snapDistance && l.closed[i]
Cleared(i) ==
    /\ polygons[i] # <<>>
    /\ PathLength(polygons[i]) > ClearDistance
    /\ ClosedAtLast(i)

\* The last loop: finish the almost finished paths, keep the closed ones that
\* are long enough.
ClearPolygons ==
    /\ mpc = "clear"
    /\ kept' = SelectSeq([i \in DOMAIN polygons |-> i], Cleared)
    /\ polygons' = [k \in 1..Len(kept') |->
                       IF Snapped(kept'[k])
                       THEN removeLastPoint(polygons[kept'[k]])
                       ELSE polygons[kept'[k]]]
    /\ closed' = [i \in DOMAIN closed |-> ClosedAtLast(i)]
    /\ mpc' = "done"
    /\ UNCHANGED <<segments, touching, startSegmentIndex, currentSegmentIndex,
                   polygon, walk, walks, marks, restarts, merges, stitched,
                   repaired, notSliceVars>>

MaxSegments == 2

\* Coordinates that are 0, 90, 810 to 900 and 1100 to 2000 apart.
Points == {0, 90, 900, 2000}

SegmentShapes == {s \in [start : Points, end : Points] : s.start # s.end}

\* The pairs of faces that can touch each other.
FacePairs(n) == {e \in SUBSET (1..n) : Cardinality(e) = 2}

InitMakePolygons ==
    /\ ProcessIdle
    /\ RenderIdle
    /\ SupportIdle
    /\ ClipIdle
    /\ options = DefaultOptions
    /\ \E n \in 1..MaxSegments :
         \E shape \in [1..n -> SegmentShapes], edges \in SUBSET FacePairs(n) :
             /\ segments = [i \in 1..n |->
                               [start |-> shape[i].start, end |-> shape[i].end,
                                faceIndex |-> i, addedToPolygon |-> FALSE]]
             /\ touching = [f \in 1..n |->
                               {g \in 1..n : {f, g} \in edges} \cup {NoFace}]
             /\ marks = [i \in 1..n |-> 0]
    /\ polygons = <<>>
    /\ closed = <<>>
    /\ mpc = "stitch"
    /\ startSegmentIndex = 1
    /\ currentSegmentIndex = 0
    /\ polygon = <<>>
    /\ walk = <<>>
    /\ walks = <<>>
    /\ restarts = 0
    /\ merges = <<>>
    /\ stitched = <<>>
    /\ repaired = <<>>
    /\ kept = <<>>

MakePolygons ==
    \/ StitchSkip
    \/ StitchBegin
    \/ StitchEnd
    \/ WalkNext
    \/ WalkBreak
    \/ ConnectMerge
    \/ ConnectDone
    \/ ClearPolygons

SpecMakePolygons == InitMakePolygons /\ [][MakePolygons]_vars

\* makePolygons runs on: nothing but its own loops decides when it ends.
SpecMakePolygonsFair == SpecMakePolygons /\ WF_vars(MakePolygons)

(***************************************************************************)
(* clipperClipper.GenerateLayerParts: the loop over the points of one      *)
(* polygon of the layer                                                    *)
(***************************************************************************)
\* p.Sub(q).ShorterThanOrEqual(d)
ShorterThanOrEqual(p, q, d) == Size(p, q) <= d

\* The distance up to which a point is filtered out.
FilterDistance == 100

PrevAfterDropVisited(j, previous) == j

\* prev after point j was filtered out: the continue leaves it as it is.
PrevAfterDrop(j, previous) == previous

\* if j == 0 { path = append(path, clipperPoint(layerPolygon[0])); continue }
FilterFirst ==
    /\ pointNr = 1
    /\ pointNr <= Len(layerPolygon)
    /\ path' = Append(path, pointNr)
    /\ pointNr' = pointNr + 1
    /\ UNCHANGED <<layerPolygon, prev, fillArgs, fillInset, tree,
                   polysForNextRound, layerParts, tpc, notClipVars>>

\* filter too near points: continue
FilterDrop ==
    /\ pointNr > 1
    /\ pointNr <= Len(layerPolygon)
    /\ ShorterThanOrEqual(layerPolygon[pointNr], layerPolygon[prev], FilterDistance)
    /\ pointNr' = pointNr + 1
    /\ prev' = PrevAfterDrop(pointNr, prev)
    /\ UNCHANGED <<layerPolygon, path, fillArgs, fillInset, tree,
                   polysForNextRound, layerParts, tpc, notClipVars>>

\* path = append(path, clipperPoint(layerPoint)); prev = j
FilterKeep ==
    /\ pointNr > 1
    /\ pointNr <= Len(layerPolygon)
    /\ ~ShorterThanOrEqual(layerPolygon[pointNr], layerPolygon[prev], FilterDistance)
    /\ path' = Append(path, pointNr)
    /\ prev' = pointNr
    /\ pointNr' = pointNr + 1
    /\ UNCHANGED <<layerPolygon, fillArgs, fillInset, tree,
                   polysForNextRound, layerParts, tpc, notClipVars>>

MaxPoints == 3

\* Coordinates that are less than 100, 100 and more than 100 apart.
FilterPoints == {0, 60, 100, 120, 300}

InitFilter ==
    /\ ProcessIdle
    /\ RenderIdle
    /\ SupportIdle
    /\ SliceIdle
    /\ FillIdle
    /\ TreeIdle
    /\ options = DefaultOptions
    /\ \E n \in 1..MaxPoints : layerPolygon \in [1..n -> FilterPoints]
    /\ pointNr = 1
    /\ prev = 1
    /\ path = <<>>

Filter ==
    \/ FilterFirst
    \/ FilterDrop
    \/ FilterKeep

SpecFilter == InitFilter /\ [][Filter]_vars

(***************************************************************************)
(* clipperClipper.Fill / getLinearFill: the region the scanlines are       *)
(* clipped by. Distances are counted in hundredths of a micrometer, so     *)
(* that lineWidth * (100 - overlapPercentage) / 100 is a whole number.     *)
(***************************************************************************)
\* overlap := float32(lineWidth) * (100.0 - float32(overlapPercentage)) / 100.0
Overlap(lineWidth, overlapPercentage) == lineWidth * (100 - overlapPercentage)

\* inset: the outline itself, or co.Execute(float64(-overlap)) of it when
\* overlapPercentage != 0. The distance the clip region lies inside the outline.
GetLinearFillInset(lineWidth, overlapPercentage) ==
    IF overlapPercentage # 0
    THEN Overlap(lineWidth, overlapPercentage)
    ELSE 0

Fill ==
    /\ fillInset = <<>>
    /\ fillArgs.lineWidth > 0
    /\ fillInset' = <<GetLinearFillInset(fillArgs.lineWidth,
                                         fillArgs.overlapPercentage)>>
    /\ UNCHANGED <<fillArgs, layerPolygon, pointNr, prev, path, tree,
                   polysForNextRound, layerParts, tpc, notClipVars>>

LineWidths == {200, 400, 600}

OverlapPercentages == 0..100

InitFill ==
    /\ ProcessIdle
    /\ RenderIdle
    /\ SupportIdle
    /\ SliceIdle
    /\ FilterIdle
    /\ TreeIdle
    /\ options = DefaultOptions
    /\ fillArgs \in [lineWidth : LineWidths, overlapPercentage : OverlapPercentages]
    /\ fillInset = <<>>

SpecFill == InitFill /\ [][Fill]_vars

(***************************************************************************)
(* clip: polyTreeToLayerParts.                                             *)
(* A polygon tree is the sequence of its nodes' parents: node k hangs       *)
(* under node tree[k], and 0 is the root, which has no contour.  The        *)
(* contour of node k is written k, so that every node has its own contour.  *)
(***************************************************************************)
RECURSIVE Concat(_)
Concat(seqs) ==
    IF seqs = <<>> THEN <<>> ELSE Head(seqs) \o Concat(Tail(seqs))

\* node.Childs(), in the order of the tree.
Childs(t, node) ==
    SelectSeq([k \in 1..Len(t) |-> k], LAMBDA k : t[k] = node)

Contour(node) == node

NewUnknownLayerPart(outline, holes) == [outline |-> outline, holes |-> holes]

\* The holes collected for p: the contours of p's children.
Holes(t, p) ==
    [k \in 1..Len(Childs(t, p)) |-> Contour(Childs(t, p)[k])]

\* A variant that hands the children of p themselves to the next round.
NextRoundChildren(t, p) == Childs(t, p)

\* What p adds to polysForNextRound: the children of p's children.
NextRound(t, p) ==
    Concat([k \in 1..Len(Childs(t, p)) |-> Childs(t, Childs(t, p)[k])])

\* for _, c := range tree.Childs()
TreeChilds ==
    /\ tpc = "start"
    /\ polysForNextRound' = Childs(tree, 0)
    /\ tpc' = "loop"
    /\ UNCHANGED <<tree, layerParts, layerPolygon, pointNr, prev, path,
                   fillArgs, fillInset, notClipVars>>

\* One round of the outer loop: every p of thisRound becomes a part.
TreeRound ==
    /\ tpc = "loop"
    /\ polysForNextRound # <<>>
    /\ LET thisRound == polysForNextRound
       IN  /\ layerParts' =
                  layerParts \o
                      [k \in 1..Len(thisRound) |->
                          NewUnknownLayerPart(Contour(thisRound[k]),
                                              Holes(tree, thisRound[k]))]
           /\ polysForNextRound' =
                  Concat([k \in 1..Len(thisRound) |->
                             NextRound(tree, thisRound[k])])
    /\ UNCHANGED <<tree, tpc, layerPolygon, pointNr, prev, path, fillArgs,
                   fillInset, notClipVars>>

\* if polysForNextRound == nil { break }; return layerParts
TreeBreak ==
    /\ tpc = "loop"
    /\ polysForNextRound = <<>>
    /\ tpc' = "done"
    /\ UNCHANGED <<tree, polysForNextRound, layerParts, layerPolygon, pointNr,
                   prev, path, fillArgs, fillInset, notClipVars>>

MaxNodes == 5

\* Every tree of up to MaxNodes nodes below the root.
PolyTrees ==
    UNION {{t \in [1..n -> 0..(n - 1)] : \A k \in 1..n : t[k] < k}
               : n \in 0..MaxNodes}

InitTree ==
    /\ ProcessIdle
    /\ RenderIdle
    /\ SupportIdle
    /\ SliceIdle
    /\ FilterIdle
    /\ FillIdle
    /\ options = DefaultOptions
    /\ tree \in PolyTrees
    /\ polysForNextRound = <<>>
    /\ layerParts = <<>>
    /\ tpc = "start"

PolyTreeToLayerParts == TreeChilds \/ TreeRound \/ TreeBreak

SpecTree == InitTree /\ [][PolyTreeToLayerParts]_vars

\* The loop of polyTreeToLayerParts is not suspended for ever.
SpecTreeFair == SpecTree /\ WF_vars(PolyTreeToLayerParts)

(***************************************************************************)
(* Claims about Process                                                    *)
(***************************************************************************)

\* The calls of the modifier loop, in the order they were made.
IsModifierCall(c) == c.stage \in {"Init", "Modify"}

ModifierCalls == SelectSeq(calls, IsModifierCall)

\* The order the modifiers are to run in.
FixedModifierOrder ==
    <<"Perimeter", "Infill", "InternalInfill", "Brim",
      "SupportDetector", "SupportGenerator">>

\* The k-th call of a full modifier loop: Init and Modify of each modifier in turn.
ExpectedModifierCall(k) ==
    [stage |-> IF k % 2 = 1 THEN "Init" ELSE "Modify",
     arg   |-> FixedModifierOrder[(k + 1) \div 2]]

\* C1: a stage that returns an error is the last stage Process invokes, and
\* Process returns that very error: no modifier, Generate or Write runs after
\* a failed call.
C1_ErrorAbortsPipeline ==
    \A i \in 1..Len(calls) :
        ~calls[i].ok =>
            /\ i = Len(calls)
            /\ pc = "done"
            /\ returned = Err(calls[i].stage, calls[i].arg)

\* A modifier in the middle of the chain failed and Process has returned.
C1_Witness ==
    /\ pc = "done"
    /\ Len(calls) > 0
    /\ calls[Len(calls)] = Call("Modify", "Brim", FALSE)

\* C2: the modifier calls are Init, Modify of Perimeter, Infill, InternalInfill,
\* Brim, SupportDetector, SupportGenerator in this order, each Modify starting
\* only after every earlier Modify returned without error, and only after Slice.
C2_ModifierOrder ==
    /\ Len(ModifierCalls) <= 2 * Len(FixedModifierOrder)
    /\ \A k \in 1..Len(ModifierCalls) :
        /\ ModifierCalls[k].stage = ExpectedModifierCall(k).stage
        /\ ModifierCalls[k].arg = ExpectedModifierCall(k).arg
        /\ k < Len(ModifierCalls) => ModifierCalls[k].ok
    /\ Len(ModifierCalls) > 0 =>
        /\ Len(calls) >= 4
        /\ calls[3] = Call("Slice", "optimizedModel", TRUE)
        /\ calls[4] = ModifierCalls[1]

\* SupportGenerator.Modify has run, after all five earlier modifiers.
C2_Witness ==
    /\ Len(ModifierCalls) = 2 * Len(FixedModifierOrder)
    /\ ModifierCalls[Len(ModifierCalls)] = Call("Modify", "SupportGenerator", TRUE)

IsWriteCall(c) == c.stage = "Write"

C3_WitnessDefault ==
    /\ pc = "done"
    /\ returned = Nil
    /\ Options.OutputFilePath = ""
    /\ calls[Len(calls)] = Call("Write", Options.InputFilePath \o ".gcode", TRUE)

(***************************************************************************)
(* Claims about the PreLayer and PostLayer renderers                       *)
(***************************************************************************)

Has(lines, line) == \E i \in 1..Len(lines) : lines[i] = line
HasCode(lines, code) == \E i \in 1..Len(lines) : lines[i].code = code

IsCommand(line) == line.code # ";"

\* The commands (not the comments) among the lines.
Commands(lines) == SelectSeq(lines, IsCommand)

\* The words only the start sequence uses.
StartCodes == {"M190", "M109", "G28", "G92", "G1"}

\* The start sequence but for the homing: heat bed and hot end and wait for
\* both, reset the extrusion position, lift the nozzle to Z=5.
StartSequenceWithoutHoming(lines) ==
    /\ Has(lines, Command("M190", "S" \o ToString(options.InitialBedTemperature)))
    /\ Has(lines, Command("M109", "S" \o ToString(options.InitialHotEndTemperature)))
    /\ Has(lines, Command("G92", "E0"))
    /\ Has(lines, Command("G1", "Z5 F5000"))

\* PreLayer adds the start sequence, but for the homing, on layer 0 and adds
\* none of its commands on any other layer.
PreLayerStartWithoutHoming ==
    \A i \in 1..Len(rendered) :
        rendered[i].renderer = "PreLayer" =>
            IF rendered[i].layerNr = 0
            THEN StartSequenceWithoutHoming(rendered[i].lines)
            ELSE \A c \in StartCodes : ~HasCode(rendered[i].lines, c)

\* C4: PreLayer adds the start sequence on layer 0 and on no other layer: it
\* sets the initial bed and hot-end temperatures and waits for both (M190,
\* M109), homes the axes (G28), resets the extrusion position (G92 E0) and
\* lifts the nozzle to Z=5.
C4_StartSequence ==
    \A i \in 1..Len(rendered) :
        rendered[i].renderer = "PreLayer" =>
            IF rendered[i].layerNr = 0
            THEN /\ StartSequenceWithoutHoming(rendered[i].lines)
                 /\ HasCode(rendered[i].lines, "G28")
            ELSE \A c \in StartCodes : ~HasCode(rendered[i].lines, c)

\* The end sequence: fan off, hot end off, bed off, home X, steppers off.
EndSequence ==
    <<Command("M107", ""), Command("M104", "S0"), Command("M140", "S0"),
      Command("G28", "X0"), Command("M84", "")>>

IsPostLayerOutput(r) == r.renderer = "PostLayer" /\ r.lines # <<>>

\* C5: PostLayer adds nothing on a layer before maxLayer and adds the end
\* sequence M107, M104 S0, M140 S0, G28 X0, M84, in this order, on layer
\* maxLayer; once all layers are rendered it has added it exactly once.
C5_EndSequenceOnce ==
    /\ \A i \in 1..Len(rendered) :
        rendered[i].renderer = "PostLayer" =>
            IF rendered[i].layerNr = maxLayer
            THEN Commands(rendered[i].lines) = EndSequence
            ELSE rendered[i].lines = <<>>
    /\ \A i \in 1..Len(rendered) : rendered[i].layerNr = (i - 1) \div 2
    /\ (renderer # "idle" /\ layerNr > maxLayer) =>
            Len(SelectSeq(rendered, IsPostLayerOutput)) = 1

\* Several layers were rendered and the last one got the end sequence.
C5_Witness ==
    /\ renderer # "idle"
    /\ maxLayer >= 2
    /\ layerNr > maxLayer
    /\ Commands(rendered[Len(rendered)].lines) = EndSequence

(***************************************************************************)
(* The support modifiers                                                   *)
(***************************************************************************)
\* SupportDetector.Modify has returned nil and SupportGenerator.Modify has
\* not run yet.
DetectorDone == modifier = "SupportGenerator" /\ options.SupportEnabled

\* Both support modifiers have returned nil.
GeneratorDone == modifier = "done" /\ options.SupportEnabled

\* The region the detector computes for layer nr of the sliced layers, cell
\* by cell: the cells within 3 * patternSpacing / 2 of a cell of layer nr + 1
\* that has no cell of layer nr within d / 2.
Protruding(nr) ==
    {c \in Cells :
        \E p \in sliced[nr + 1].parts :
            /\ Abs(c - p) <= GoDiv(options.PatternSpacing * 3, 2)
            /\ \A q \in sliced[nr].parts : Abs(p - q) > GoDiv(options.Distance, 2)}

\* The detector leaves the parts and every attribute but `support` as sliced.
DetectorFrame ==
    \A m \in DOMAIN layers :
        /\ layers[m].parts = sliced[m].parts
        /\ DOMAIN layers[m].attributes \ {"support"} = DOMAIN sliced[m].attributes
        /\ \A a \in DOMAIN sliced[m].attributes :
               layers[m].attributes[a] = sliced[m].attributes[a]

\* C6 (amended): with support enabled, for every layer index n with
\* topGapLayers <= n < len(layers)-1 SupportDetector.Modify computes the
\* region of layer n+1 that protrudes beyond layer n and stores it, when
\* non-empty, as attribute `support` on layer n - topGapLayers; it writes the
\* `support` attribute of no other layer (the layers n < topGapLayers are
\* skipped) and leaves every layer's parts and other attributes unchanged.
C6_DetectorStoresSupport ==
    DetectorDone =>
        /\ DetectorFrame
        /\ \A m \in DOMAIN layers :
               LET n == m + options.TopGapLayers
               IN  IF n <= NumLayers(layers) - 2 /\ Protruding(n) # {}
                   THEN /\ HasAttribute(layers[m], "support")
                        /\ layers[m].attributes["support"] = Protruding(n)
                   ELSE ~HasAttribute(layers[m], "support")

\* C6 as stated: with support enabled, for every layer index n below the top
\* layer (0 <= n < len(layers)-1) the protruding region of layer n+1 is
\* stored, when non-empty, as `support` on layer n - topGapLayers, and the
\* parts and other attributes of every layer are unchanged.
C6_EveryLayerBelowTop ==
    DetectorDone =>
        /\ DetectorFrame
        /\ \A n \in 0..(NumLayers(layers) - 2) :
               Protruding(n) # {} =>
                   /\ (n - options.TopGapLayers) \in DOMAIN layers
                   /\ PartsAttribute(layers[n - options.TopGapLayers], "support")
                          = Protruding(n)

\* The detector ran with a top gap over a brimmed model and stored a support
\* on a layer below the one it was detected at.
C6_Witness ==
    /\ DetectorDone
    /\ options.TopGapLayers = 1
    /\ HasAttribute(layers[0], "brim")
    /\ \E m \in DOMAIN layers :
           /\ HasAttribute(layers[m], "support")
           /\ layers[m].attributes["support"] = Protruding(m + 1)
           /\ Protruding(m + 1) # Protruding(m)

\* The area of layer nr + 1 that overhangs layer nr by more than d: the cells
\* of layer nr + 1 that have no cell of layer nr within d.
Overhang(nr, d) ==
    {c \in sliced[nr + 1].parts : \A q \in sliced[nr].parts : Abs(c - q) > d}

\* C7: after SupportDetector.Modify, for every layer n < top - topGapLayers
\* the stored support[n] is a subset of layer[n+1+topGapLayers] minus
\* (layer[n+topGapLayers] offset by d): no point of the stored support lies
\* outside the area that overhangs by more than d.
C7_SupportWithinOverhang ==
    DetectorDone =>
        \A n \in DOMAIN layers :
            n < (NumLayers(layers) - 1) - options.TopGapLayers =>
                PartsAttribute(layers[n], "support")
                    \subseteq Overhang(n + options.TopGapLayers, options.Distance)

SupportAttributes == {"support", "supportInterface", "fullSupport"}

\* The parts of the layer expanded as the generator expands the layer below.
ExpandedByGap(layer) ==
    {c \in Cells : \E q \in layer.parts : Abs(c - q) <= GoDiv(options.Gap, 2)}

\* C8: after SupportGenerator.Modify has run over all layers, on every layer
\* the regions stored as `support`, `supportInterface` and `fullSupport` do not
\* overlap that layer's own parts expanded by the gap, the second-to-top
\* layer and the layers the walk skipped included.
C8_SupportClearOfModel ==
    GeneratorDone =>
        \A n \in DOMAIN layers : \A a \in SupportAttributes :
            PartsAttribute(layers[n], a) \cap ExpandedByGap(layers[n]) = {}

\* C9: after SupportGenerator.Modify, on every layer `support` and
\* `supportInterface` are disjoint and their union is contained in
\* `fullSupport`.
C9_InterfaceSplitsFullSupport ==
    GeneratorDone =>
        \A n \in DOMAIN layers :
            /\ PartsAttribute(layers[n], "support")
                   \cap PartsAttribute(layers[n], "supportInterface") = {}
            /\ (PartsAttribute(layers[n], "support")
                   \cup PartsAttribute(layers[n], "supportInterface"))
                   \subseteq PartsAttribute(layers[n], "fullSupport")

\* C10: whenever a clip operation used inside SupportDetector.Modify or
\* SupportGenerator.Modify reports ok = false, Modify returns a non-nil error
\* and the layer of that round is not stored, the two differences that
\* remove the brim area included.
C10_ClipFailureAborts ==
    clipFailed => (modifyErr # Nil /\ ~wroteAfterFail)

(***************************************************************************)
(* makePolygons                                                            *)
(***************************************************************************)
\* The indices of the paths of the repair loop that remain in the layer.
Remaining == {kept[k] : k \in DOMAIN kept}

\* The ends of path i, as the repair loop left it, are less than d apart.
EndsWithin(i, d) ==
    Size(repaired.polygons[i][1], Last(repaired.polygons[i])) < d

KeptPoints == {path[k] : k \in DOMAIN path}

\* The last point before point j that was kept.
LastKeptBefore(j) ==
    CHOOSE k \in KeptPoints : k < j /\ \A m \in KeptPoints : m < j => m <= k

\* The points are appended in the order of the polygon.
PathInOrder == \A k \in 1..(Len(path) - 1) : path[k] < path[k + 1]

\* C12 (amended): GenerateLayerParts always keeps the first point of each
\* input polygon and removes a later point if and only if its distance to
\* the previous kept point is 100 um or less; the distance is always
\* measured to the last kept point, not to the last visited point.
C12_FilterNearPoints ==
    /\ PathInOrder
    /\ \A j \in 1..(pointNr - 1) :
           j \notin KeptPoints <=>
               /\ j > 1
               /\ Size(layerPolygon[j], layerPolygon[LastKeptBefore(j)]) <= 100

\* C12 as stated: a later point is removed if and only if its distance to the
\* previous kept point is less than 100 um.
C12_FilterPointsBelow100 ==
    /\ PathInOrder
    /\ \A j \in 1..(pointNr - 1) :
           j \notin KeptPoints <=>
               /\ j > 1
               /\ Size(layerPolygon[j], layerPolygon[LastKeptBefore(j)]) < 100

\* A point was removed, and the next one was kept although it is no more
\* than 100 um from the removed one.
C12_Witness ==
    /\ pointNr = 4
    /\ path = <<1, 3>>
    /\ Size(layerPolygon[3], layerPolygon[2]) <= 100

(***************************************************************************)
(* Fill                                                                    *)
(***************************************************************************)
\* C13: for every overlapPercent in 0..100, Fill clips its scanlines to the
\* part outline inset by lineWidth * (100 - overlapPercent) / 100 (here in
\* hundredths of a micrometer), so the inset distance decreases
\* monotonically from a full lineWidth at 0 % to zero at 100 %.
C13_FillInset ==
    fillInset # <<>> =>
        /\ fillInset[1] = fillArgs.lineWidth * (100 - fillArgs.overlapPercentage)
        /\ \A q \in 0..fillArgs.overlapPercentage :
               GetLinearFillInset(fillArgs.lineWidth, q) >= fillInset[1]

(***************************************************************************)
(* SupportGenerator: the support grows downwards                           *)
(***************************************************************************)
\* The `support` the detector stores on layer m.
Detected(m) ==
    IF m + options.TopGapLayers <= NumLayers(layers) - 2
    THEN Protruding(m + options.TopGapLayers)
    ELSE {}

\* The cells within distance of the parts of the layer.
ExpandedBy(layer, distance) ==
    {c \in Cells : \E q \in layer.parts : Abs(c - q) <= distance}

\* The full support of layer m when the model is expanded by distance: the
\* second-to-top layer hands down its own support, every layer below it the
\* full support of the layer above united with its own detected support and
\* reduced by its own expanded parts.
RECURSIVE Propagated(_, _)
Propagated(m, distance) ==
    IF m >= NumLayers(layers) - 2
    THEN Detected(m)
    ELSE (Propagated(m + 1, distance) \cup Detected(m))
             \ ExpandedBy(sliced[m], distance)

\* The generator leaves the two topmost layers as the detector left them,
\* and the parts and the attributes of the earlier modifiers of every layer.
GeneratorFrame ==
    \A m \in DOMAIN layers :
        /\ layers[m].parts = sliced[m].parts
        /\ \A a \in DOMAIN sliced[m].attributes :
               /\ a \in DOMAIN layers[m].attributes
               /\ layers[m].attributes[a] = sliced[m].attributes[a]
        /\ m >= NumLayers(layers) - 2 =>
               /\ DOMAIN layers[m].attributes \ DOMAIN sliced[m].attributes
                      \subseteq {"support"}
               /\ PartsAttribute(layers[m], "support") = Detected(m)

\* C14 (amended): walking layerNr from the second-to-top layer down to
\* layer 1, the `fullSupport` written to layer layerNr-1 equals ((the full
\* support produced by the previous iteration, or layer layerNr's own
\* `support` when there is none) union the detected `support` of layer
\* layerNr-1) minus the parts of layer layerNr-1 expanded by half the gap
\* (gap / 2, rounded toward zero); only layer layerNr-1 is modified in an
\* iteration.
C14_SupportGrowsDown ==
    GeneratorDone =>
        /\ GeneratorFrame
        /\ \A m \in DOMAIN layers :
               m <= NumLayers(layers) - 3 =>
                   PartsAttribute(layers[m], "fullSupport")
                       = Propagated(m, GoDiv(options.Gap, 2))

\* C14 as stated: the `fullSupport` written to layer layerNr-1 is the union
\* minus the parts of layer layerNr-1 expanded by gap.
C14_ExpandedByGap ==
    GeneratorDone =>
        /\ GeneratorFrame
        /\ \A m \in DOMAIN layers :
               m <= NumLayers(layers) - 3 =>
                   PartsAttribute(layers[m], "fullSupport")
                       = Propagated(m, options.Gap)

\* A support detected on the second-to-top layer has grown down to layer 0,
\* past a layer that has a detected support of its own and cuts a part of
\* it away.
C14_Witness ==
    /\ GeneratorDone
    /\ NumLayers(layers) = 4
    /\ options.Gap = 2
    /\ Detected(2) # {}
    /\ Detected(1) # {}
    /\ PartsAttribute(layers[0], "fullSupport") # {}
    /\ PartsAttribute(layers[0], "fullSupport")
           # PartsAttribute(layers[1], "fullSupport")

(***************************************************************************)
(* makePolygons: stitching                                                 *)
(***************************************************************************)
\* The stitching loop has ended.
Stitched == mpc \in {"connect", "clear", "done"}

\* The segments used before step m of walk k: those of the earlier walks and
\* those of the first m - 1 steps of walk k.
UsedBefore(k, m) ==
    UNION {{walks[j][n] : n \in DOMAIN walks[j]} : j \in 1..(k - 1)}
        \cup {walks[k][n] : n \in 1..(m - 1)}

\* C15: stitching, started at an unused segment, moves only to a not yet
\* used segment of a neighbouring face whose start lies within 30 um of the
\* current segment's end, and marks the path closed exactly when the end of
\* the last segment lies within 30 um of the starting segment's start and
\* the starting segment's face is a neighbour of the last face; in every
\* other case the path is left open.
C15_StitchingWalk ==
    Stitched =>
        \A k \in DOMAIN walks :
            LET w == walks[k]
                last == w[Len(w)]
            IN  /\ w[1] \notin UsedBefore(k, 1)
                /\ \A m \in 1..(Len(w) - 1) :
                       /\ w[m + 1] \notin UsedBefore(k, m + 1)
                       /\ w[m + 1] \in touching[segments[w[m]].faceIndex]
                       /\ Size(segments[w[m]].end, segments[w[m + 1]].start) < 30
                /\ stitched.polygons[k]
                       = <<segments[w[1]].start>>
                             \o [m \in 1..Len(w) |-> segments[w[m]].end]
                /\ stitched.closed[k] <=>
                       /\ Size(segments[last].end, segments[w[1]].start) < 30
                       /\ segments[w[1]].faceIndex
                              \in touching[segments[last].faceIndex]

\* A walk went through two segments and came back to the first.
C15_Witness ==
    /\ Stitched
    /\ \E k \in DOMAIN walks : Len(walks[k]) = 2 /\ stitched.closed[k]

\* C16: in the repair step, after open path j has been appended to open
\* path i, path i is marked closed if and only if the two ends of the merged
\* path (the first point of path i and the last point of the appended path
\* j) lie within 100 um of each other.
C16_ClosureTestOnMergedPath ==
    \A n \in DOMAIN merges :
        merges[n].closed <=>
            Size(merges[n].before[1], Last(merges[n].appended)) < 100

\* All points of a path but the last.
Front(pts) == SubSeq(pts, 1, Len(pts) - 1)

\* C18: a polygon that makePolygons marks as closed does not keep an explicit
\* closing point: a path closed by the repair step is the merged path
\* without its last point, and a path closed by the final snap is the path
\* the repair loop left without its last point.
C18_ClosedWithoutClosingPoint ==
    /\ \A n \in DOMAIN merges :
           merges[n].closed =>
               merges[n].after = Front(merges[n].before \o merges[n].appended)
    /\ mpc = "done" =>
           \A k \in DOMAIN kept :
               EndsWithin(kept[k], ClearDistance) =>
                   polygons[k] = Front(repaired.polygons[kept[k]])

\* The number of follow-up steps of the walks ws: every walk's segments but
\* its first.
RECURSIVE FollowUps(_)
FollowUps(ws) ==
    IF ws = <<>> THEN 0 ELSE (Len(Head(ws)) - 1) + FollowUps(Tail(ws))

\* The places (walk, step) at which segment i was consumed.
Consumed(i) ==
    UNION {{<<k, m>> : m \in {n \in DOMAIN walks[k] : walks[k][n] = i}}
               : k \in DOMAIN walks}

\* C19: no segment is consumed twice, and after the stitching phase every
\* segment of the layer has addedToPolygon = true and was consumed by
\* exactly one stitched path, at one place; the number of paths plus the
\* number of follow-up steps equals the number of segments.
C19_EverySegmentConsumedOnce ==
    /\ \A i \in DOMAIN segments : marks[i] <= 1
    /\ Stitched =>
           /\ \A i \in DOMAIN segments :
                  /\ segments[i].addedToPolygon
                  /\ marks[i] = 1
                  /\ Cardinality(Consumed(i)) = 1
           /\ Len(walks) + FollowUps(walks) = Len(segments)
           /\ Len(stitched.polygons) = Len(walks)

\* Stitching has ended with a path of two segments.
C19_Witness ==
    /\ Stitched
    /\ Len(segments) = 2
    /\ Len(walks) = 1
    /\ FollowUps(walks) = 1

\* The paths stitching left open, and the polygons set to nil so far.
OpenAfterStitching == {k \in DOMAIN stitched.closed : ~stitched.closed[k]}
Erased == {i \in DOMAIN polygons : polygons[i] = <<>>}

\* C20: makePolygons terminates for every set of segments and every face
\* adjacency, cyclic adjacency included: no step of a stitching walk marks a
\* segment that was marked before, every restart of the repair loop follows
\* a merge that set one more polygon to nil, and the number of restarts is
\* at most the number of paths that stitching left open.
C20_MakePolygonsTerminates ==
    /\ [](\A i \in DOMAIN segments : marks[i] <= 1)
    /\ [](restarts = Len(merges))
    /\ [](mpc \in {"connect", "clear"} =>
              /\ Cardinality(Erased) = restarts
              /\ restarts <= Cardinality(OpenAfterStitching))
    /\ <>(mpc = "done")

\* makePolygons has ended after a restart of the repair loop, on a layer
\* whose two faces touch each other.
C20_Witness ==
    /\ mpc = "done"
    /\ restarts >= 1
    /\ \E f \in DOMAIN touching : touching[f] \ {NoFace} # {}

(***************************************************************************)
(* polyTreeToLayerParts                                                    *)
(***************************************************************************)
\* The depth of a node; the children of the root have depth 0.
RECURSIVE Depth(_, _)
Depth(t, node) == IF t[node] = 0 THEN 0 ELSE Depth(t, t[node]) + 1

EvenNodes == {k \in DOMAIN tree : Depth(tree, k) % 2 = 0}
OddNodes == {k \in DOMAIN tree : Depth(tree, k) % 2 = 1}

\* The parts with outline k, and the (part, hole position) pairs holding k.
PartsOf(k) == {n \in DOMAIN layerParts : layerParts[n].outline = Contour(k)}
HoleUses(k) ==
    UNION {{<<n, h>> : h \in {g \in DOMAIN layerParts[n].holes :
                                 layerParts[n].holes[g] = Contour(k)}}
               : n \in DOMAIN layerParts}

HoleSet(n) == {layerParts[n].holes[h] : h \in DOMAIN layerParts[n].holes}

TreeFlattened ==
    /\ \A k \in EvenNodes :
           /\ Cardinality(PartsOf(k)) = 1
           /\ Cardinality(HoleUses(k)) = 0
           /\ \A n \in PartsOf(k) :
                  HoleSet(n) = {Contour(c) : c \in {d \in DOMAIN tree : tree[d] = k}}
    /\ \A k \in OddNodes :
           /\ Cardinality(PartsOf(k)) = 0
           /\ Cardinality(HoleUses(k)) = 1
    /\ Len(layerParts) = Cardinality(EvenNodes)

\* C17: polyTreeToLayerParts returns, and what it returns has exactly one
\* part per node at even depth, whose outline is that node's contour and
\* whose holes are exactly the contours of that node's direct children;
\* every odd-depth node is a hole of exactly one part and an outline of
\* none, and no contour is lost or duplicated.
C17_TreeFlattened ==
    /\ [](tpc = "done" => TreeFlattened)
    /\ <>(tpc = "done")

\* A returned list with an outer contour nested inside a hole.
C17_Witness ==
    /\ tpc = "done"
    /\ \E k \in EvenNodes : Depth(tree, k) = 2
    /\ \E n \in DOMAIN layerParts : Len(layerParts[n].holes) = 2

====
